---- MODULE Spec2Model ----
(***************************************************************************)
(* Model of the shopping receipt generator: receipt_generator.py (the      *)
(* JSON item loader, LineItem.line_total, format_money, build_receipt and  *)
(* main) and app.py (the two interactive generation paths that go through  *)
(* a file on disk).                                                        *)
(*                                                                         *)
(* Python text is a sequence of one-character strings, so that str(),      *)
(* Decimal(str), int(str), Decimal.__str__ and "\n".join are computed and  *)
(* not assumed.  A Decimal is a record [neg, c, e]: sign, coefficient and  *)
(* exponent, as in the decimal module.  All coefficients of the model stay *)
(* far below 10^28, so the context precision (28 digits) never rounds.     *)
(***************************************************************************)
EXTENDS Integers, Sequences, FiniteSets, TLC

\* ------------------------------------------------------------------ text

DigitChars == <<"0", "1", "2", "3", "4", "5", "6", "7", "8", "9">>

IsDigit(ch) == \E d \in 1..10 : DigitChars[d] = ch

DigitOf(ch) == (CHOOSE d \in 1..10 : DigitChars[d] = ch) - 1

AllDigits(s) == \A k \in 1..Len(s) : IsDigit(s[k])

RECURSIVE ToNat(_)
\* the number a non-empty run of digits denotes
ToNat(s) ==
    IF s = <<>> THEN 0
    ELSE 10 * ToNat(SubSeq(s, 1, Len(s) - 1)) + DigitOf(s[Len(s)])

RECURSIVE NatStr(_)
\* str(n) for an int n >= 0
NatStr(n) ==
    IF n < 10 THEN <<DigitChars[n + 1]>>
    ELSE NatStr(n \div 10) \o <<DigitChars[(n % 10) + 1]>>

\* str(n) for an int
IntStr(n) == IF n < 0 THEN <<"-">> \o NatStr(-n) ELSE NatStr(n)

RECURSIVE Pow10(_)
Pow10(n) == IF n <= 0 THEN 1 ELSE 10 * Pow10(n - 1)

\* len(str(n)) for n >= 0
NumDigits(n) == Len(NatStr(n))

RECURSIVE Zeros(_)
Zeros(n) == IF n <= 0 THEN <<>> ELSE <<"0">> \o Zeros(n - 1)

\* position of the first character of s that is in set, 0 when there is none
FirstIn(s, set) ==
    IF \E k \in 1..Len(s) : s[k] \in set
    THEN CHOOSE k \in 1..Len(s) : s[k] \in set /\ \A j \in 1..(k - 1) : s[j] \notin set
    ELSE 0

\* ------------------------------------------------------------- Decimal

Dec(neg, c, e) == [neg |-> neg, c |-> c, e |-> e]

\* the two ways a call ends: an exception leaves it, or it returns v
Raised == [raised |-> TRUE]

Ok(v) == [raised |-> FALSE, v |-> v]

\* Decimal(s) for a literal s: [sign] digits [. digits] [E [sign] digits];
\* anything else raises InvalidOperation.
ParseDecimal(s) ==
    LET signed == s # <<>> /\ s[1] \in {"-", "+"}
        neg    == s # <<>> /\ s[1] = "-"
        body   == IF signed THEN SubSeq(s, 2, Len(s)) ELSE s
        ePos   == FirstIn(body, {"E", "e"})
        mant   == IF ePos = 0 THEN body ELSE SubSeq(body, 1, ePos - 1)
        expo   == IF ePos = 0 THEN <<>> ELSE SubSeq(body, ePos + 1, Len(body))
        eSigned == expo # <<>> /\ expo[1] \in {"-", "+"}
        eDigits == IF eSigned THEN SubSeq(expo, 2, Len(expo)) ELSE expo
        eVal   == IF ePos = 0 THEN 0
                  ELSE IF expo[1] = "-" THEN -ToNat(eDigits) ELSE ToNat(eDigits)
        dot    == FirstIn(mant, {"."})
        intp   == IF dot = 0 THEN mant ELSE SubSeq(mant, 1, dot - 1)
        fracp  == IF dot = 0 THEN <<>> ELSE SubSeq(mant, dot + 1, Len(mant))
        ok     == /\ AllDigits(intp) /\ AllDigits(fracp)
                  /\ Len(intp) + Len(fracp) > 0
                  /\ (ePos # 0 => (eDigits # <<>> /\ AllDigits(eDigits)))
    IN IF ok THEN Ok(Dec(neg, ToNat(intp \o fracp), eVal - Len(fracp))) ELSE Raised

\* Decimal(n) for an int n
DecOfInt(n) == IF n < 0 THEN Dec(TRUE, -n, 0) ELSE Dec(FALSE, n, 0)

\* a * b: signs combine, coefficients multiply, exponents add
DecMul(a, b) == Dec(a.neg # b.neg, a.c * b.c, a.e + b.e)

\* a + b: both brought to the smaller exponent; a zero sum is negative only
\* when both operands are
DecAdd(a, b) ==
    LET e  == IF a.e < b.e THEN a.e ELSE b.e
        ca == a.c * Pow10(a.e - e)
        cb == b.c * Pow10(b.e - e)
        sa == IF a.neg THEN -ca ELSE ca
        sb == IF b.neg THEN -cb ELSE cb
        s  == sa + sb
    IN IF s > 0 THEN Dec(FALSE, s, e)
       ELSE IF s < 0 THEN Dec(TRUE, -s, e)
       ELSE Dec(a.neg /\ b.neg, 0, e)

\* Decimal.quantize(Decimal("0.01"), rounding=ROUND_HALF_UP) takes the exponent
\* of its argument
Places == 2

\* d.quantize(Decimal("0.01"), rounding=ROUND_HALF_UP), as decimal._rescale does
\* it on the digits: with the exponent already >= -2 the coefficient is padded
\* with zeros; otherwise the digits below 10^-2 are dropped and the coefficient
\* goes up by one when the first dropped digit is 5..9.  The sign is kept, also
\* on a zero result.
Quantize(d) ==
    LET exp  == -Places
        drop == exp - d.e
        kept == d.c \div Pow10(drop)
        next == (d.c \div Pow10(drop - 1)) % 10
    IN IF d.c = 0 THEN Dec(d.neg, 0, exp)
       ELSE IF d.e >= exp THEN Dec(d.neg, d.c * Pow10(d.e - exp), exp)
       ELSE IF NumDigits(d.c) - drop < 0 THEN Dec(d.neg, 0, exp)
       ELSE Dec(d.neg, IF next >= 5 THEN kept + 1 ELSE kept, exp)

RECURSIVE StripZeros(_, _)
StripZeros(c, e) == IF c % 10 = 0 THEN StripZeros(c \div 10, e + 1) ELSE <<c, e>>

\* d.normalize(): every trailing zero of the coefficient is stripped and the
\* exponent raised as far, also above 0; zero becomes 0 with exponent 0
Normalize(d) ==
    IF d.c = 0 THEN Dec(d.neg, 0, 0)
    ELSE LET r == StripZeros(d.c, d.e) IN Dec(d.neg, r[1], r[2])

\* str(d), Decimal.__str__: plain notation when the exponent is <= 0 and the
\* number is not below 10^-6, scientific notation otherwise
DecStr(d) ==
    LET int        == NatStr(d.c)
        leftdigits == d.e + Len(int)
        dotplace   == IF d.e <= 0 /\ leftdigits > -6 THEN leftdigits ELSE 1
        intpart    == IF dotplace <= 0 THEN <<"0">>
                      ELSE IF dotplace >= Len(int) THEN int \o Zeros(dotplace - Len(int))
                      ELSE SubSeq(int, 1, dotplace)
        fracpart   == IF dotplace <= 0 THEN <<".">> \o Zeros(-dotplace) \o int
                      ELSE IF dotplace >= Len(int) THEN <<>>
                      ELSE <<".">> \o SubSeq(int, dotplace + 1, Len(int))
        x          == leftdigits - dotplace
        exp        == IF x = 0 THEN <<>>
                      ELSE <<"E">> \o (IF x < 0 THEN <<"-">> ELSE <<"+">>)
                                   \o NatStr(IF x < 0 THEN -x ELSE x)
    IN (IF d.neg THEN <<"-">> ELSE <<>>) \o intpart \o fracpart \o exp

\* ------------------------------------------------- receipt_generator.py

LineItem(description, price, quantity) ==
    [description |-> description, price |-> price, quantity |-> quantity]

\* line_total with the price rounded to cents before the multiplication
line_total_RoundedPrice(item) ==
    Quantize(DecMul(Quantize(item.price), DecOfInt(item.quantity)))

\* LineItem.line_total
line_total(item) == Quantize(DecMul(item.price, DecOfInt(item.quantity)))

\* format_money
format_money(value, currency_symbol) == currency_symbol \o DecStr(Quantize(value))

\* the literal texts of load_items_from_json and build_receipt
NoneStr == <<"N", "o", "n", "e">>

ItemStr == <<"I", "t", "e", "m">>

DashStr == <<"-", " ">>

TimesStr == <<" ", "x", " ">>

AtStr == <<" ", "@", " ">>

EqualsStr == <<" ", "=", " ">>

ItemsStr == <<"I", "t", "e", "m", "s", ":">>

SubtotalStr == <<"S", "u", "b", "t", "o", "t", "a", "l", ":", " ">>

TaxStr == <<"T", "a", "x", " ", "(">>

PercentStr == <<"%", ")", ":", " ">>

TotalStr == <<"T", "o", "t", "a", "l", ":", " ">>

\* ---- JSON values: a scalar is [t, s, n]; n is the value of an int, the value
\* of a float in tenths (25 is 2.5)
JAbsent == [t |-> "absent", s |-> <<>>, n |-> 0]

JNull == [t |-> "null", s |-> <<>>, n |-> 0]

JStr(s) == [t |-> "str", s |-> s, n |-> 0]

JInt(n) == [t |-> "int", s |-> <<>>, n |-> n]

JFloat(tenths) == [t |-> "float", s |-> <<>>, n |-> tenths]

\* entry.get(key, default)
Get(v, default) == IF v.t = "absent" THEN default ELSE v

\* str(v)
PyStr(v) ==
    CASE v.t = "str"   -> v.s
      [] v.t = "int"   -> IntStr(v.n)
      [] v.t = "float" -> (IF v.n < 0 THEN <<"-">> ELSE <<>>)
                          \o NatStr((IF v.n < 0 THEN -v.n ELSE v.n) \div 10) \o <<".">>
                          \o NatStr((IF v.n < 0 THEN -v.n ELSE v.n) % 10)
      [] OTHER         -> NoneStr

\* int(v): an int is itself, a float is truncated towards zero, a string must be
\* an integer literal (ValueError otherwise), None raises TypeError
PyInt(v) ==
    CASE v.t = "int"   -> Ok(v.n)
      [] v.t = "float" -> Ok(IF v.n < 0 THEN -((-v.n) \div 10) ELSE v.n \div 10)
      [] v.t = "str"   ->
           LET signed == v.s # <<>> /\ v.s[1] \in {"-", "+"}
               digits == IF signed THEN SubSeq(v.s, 2, Len(v.s)) ELSE v.s
           IN IF digits # <<>> /\ AllDigits(digits)
              THEN Ok(IF v.s[1] = "-" THEN -ToNat(digits) ELSE ToNat(digits))
              ELSE Raised
      [] OTHER         -> Raised

\* the loop body with description = entry.get("description") or "Item": an empty
\* description replaced by the default as well
ParseEntry_EmptyAsMissing(entry) ==
    IF ~entry.isMap THEN Raised
    ELSE LET given       == PyStr(Get(entry.description, JStr(ItemStr)))
             description == IF given = <<>> THEN ItemStr ELSE given
             price       == ParseDecimal(PyStr(Get(entry.price, JStr(<<"0">>))))
             quantity    == PyInt(Get(entry.quantity, JInt(1)))
         IN IF price.raised \/ quantity.raised THEN Raised
            ELSE Ok(LineItem(description, price.v, quantity.v))

\* the body of the loop of load_items_from_json on one element of raw_items; an
\* element that is no mapping has no .get (AttributeError)
ParseEntry(entry) ==
    IF ~entry.isMap THEN Raised
    ELSE LET description == PyStr(Get(entry.description, JStr(ItemStr)))
             price       == ParseDecimal(PyStr(Get(entry.price, JStr(<<"0">>))))
             quantity    == PyInt(Get(entry.quantity, JInt(1)))
         IN IF price.raised \/ quantity.raised THEN Raised
            ELSE Ok(LineItem(description, price.v, quantity.v))

RECURSIVE LoadLoop_SkipRejected(_, _, _)
\* the loop with a rejected record skipped and the rest of the list loaded
LoadLoop_SkipRejected(raw_items, k, items) ==
    IF k > Len(raw_items) THEN Ok(items)
    ELSE LET r == ParseEntry(raw_items[k])
         IN LoadLoop_SkipRejected(raw_items, k + 1,
                                  IF r.raised THEN items ELSE Append(items, r.v))

RECURSIVE LoadLoop(_, _, _)
\* for entry in raw_items: ... items.append(...); the first exception leaves the
\* function and the items appended so far are lost with its frame
LoadLoop(raw_items, k, items) ==
    IF k > Len(raw_items) THEN Ok(items)
    ELSE LET r == ParseEntry(raw_items[k])
         IN IF r.raised THEN Raised ELSE LoadLoop(raw_items, k + 1, Append(items, r.v))

\* load_items_from_json on the decoded document data: data.get exists on a
\* mapping only; the value under "items" ([] when the key is absent) is
\* iterated, whatever it is: a list gives its elements, a mapping its keys, a
\* string its characters, a number or null raises TypeError
load_items_from_json(data) ==
    IF data.t # "map" THEN Raised
    ELSE IF data.items.t \in {"num", "null"} THEN Raised
    ELSE LoadLoop(data.items.elems, 1, <<>>)

RECURSIVE Join(_)
\* "\n".join(lines)
Join(lines) ==
    IF lines = <<>> THEN <<>>
    ELSE IF Len(lines) = 1 THEN lines[1]
    ELSE lines[1] \o <<"\n">> \o Join(Tail(lines))

\* the line build_receipt appends for one item
ItemLine(item, currency_symbol) ==
    DashStr \o item.description \o TimesStr \o IntStr(item.quantity) \o AtStr
        \o format_money(item.price, currency_symbol) \o EqualsStr
        \o format_money(line_total(item), currency_symbol)

RECURSIVE BuildLoop_UnroundedSum(_, _, _, _, _, _)
\* the loop with subtotal += price * quantity, the product left unrounded
BuildLoop_UnroundedSum(items, k, lines, subtotal, totals, currency_symbol) ==
    IF k > Len(items) THEN [lines |-> lines, subtotal |-> subtotal, totals |-> totals]
    ELSE LET total == line_total(items[k])
         IN BuildLoop_UnroundedSum(
                items, k + 1, Append(lines, ItemLine(items[k], currency_symbol)),
                DecAdd(subtotal, DecMul(items[k].price, DecOfInt(items[k].quantity))),
                Append(totals, total), currency_symbol)

RECURSIVE BuildLoop_NewestFirst(_, _, _, _, _, _)
\* the loop with each item line put right after the header, above the earlier ones
BuildLoop_NewestFirst(items, k, lines, subtotal, totals, currency_symbol) ==
    IF k > Len(items) THEN [lines |-> lines, subtotal |-> subtotal, totals |-> totals]
    ELSE LET total == line_total(items[k])
         IN BuildLoop_NewestFirst(
                items, k + 1,
                <<Head(lines), ItemLine(items[k], currency_symbol)>> \o Tail(lines),
                DecAdd(subtotal, total), Append(totals, total), currency_symbol)

RECURSIVE BuildLoop(_, _, _, _, _, _)
\* for item in items: total = item.line_total(); lines.append(...); subtotal += total
\* (totals keeps the value of total at each iteration)
BuildLoop(items, k, lines, subtotal, totals, currency_symbol) ==
    IF k > Len(items) THEN [lines |-> lines, subtotal |-> subtotal, totals |-> totals]
    ELSE LET total == line_total(items[k])
         IN BuildLoop(items, k + 1, Append(lines, ItemLine(items[k], currency_symbol)),
                      DecAdd(subtotal, total), Append(totals, total), currency_symbol)

\* the percentage of the Tax line: str((tax_rate * Decimal("100")).normalize())
TaxLabel(tax_rate) == DecStr(Normalize(DecMul(tax_rate, Dec(FALSE, 100, 0))))

\* build_receipt with the tax left unrounded
build_receipt_UnroundedTax(items, tax_rate, currency_symbol) ==
    LET loop        == BuildLoop(items, 1, <<ItemsStr>>, Dec(FALSE, 0, 0), <<>>, currency_symbol)
        subtotal    == loop.subtotal
        tax         == DecMul(subtotal, tax_rate)
        grand_total == Quantize(DecAdd(subtotal, tax))
        lines       == loop.lines \o
                       << <<>>,
                          SubtotalStr \o format_money(subtotal, currency_symbol),
                          TaxStr \o TaxLabel(tax_rate) \o PercentStr
                              \o format_money(tax, currency_symbol),
                          TotalStr \o format_money(grand_total, currency_symbol) >>
    IN [lines |-> lines, totals |-> loop.totals, subtotal |-> subtotal, tax |-> tax,
        grand_total |-> grand_total, text |-> Join(lines)]

\* build_receipt; the record keeps its locals next to the text it returns
build_receipt(items, tax_rate, currency_symbol) ==
    LET loop        == BuildLoop(items, 1, <<ItemsStr>>, Dec(FALSE, 0, 0), <<>>, currency_symbol)
        subtotal    == loop.subtotal
        tax         == Quantize(DecMul(subtotal, tax_rate))
        grand_total == Quantize(DecAdd(subtotal, tax))
        lines       == loop.lines \o
                       << <<>>,
                          SubtotalStr \o format_money(subtotal, currency_symbol),
                          TaxStr \o TaxLabel(tax_rate) \o PercentStr
                              \o format_money(tax, currency_symbol),
                          TotalStr \o format_money(grand_total, currency_symbol) >>
    IN [lines |-> lines, totals |-> loop.totals, subtotal |-> subtotal, tax |-> tax,
        grand_total |-> grand_total, text |-> Join(lines)]

\* ------------------------------------------------------------ the inputs

\* the longest "items" list of an input document
MaxItems == 2

\* the number of interactive sessions
NumSessions == 2

Entry(description, price, quantity) ==
    [isMap |-> TRUE, description |-> description, price |-> price, quantity |-> quantity]

\* an element of "items" that is no mapping (a number, a string, a key of a mapping)
NotAMapping ==
    [isMap |-> FALSE, description |-> JAbsent, price |-> JAbsent, quantity |-> JAbsent]

\* the records the model's documents are made of
Entries ==
    { Entry(JStr(<<"L", "a", "m", "p">>), JStr(<<"5", "2", ".", "1", "5">>), JInt(1)),
      Entry(JStr(<<"S", "o", "f", "a">>), JStr(<<"2", "5", "4", ".", "0", "0">>), JInt(1)),
      Entry(JStr(<<"S", "o", "f", "a">>), JStr(<<"2", "5", "4">>), JInt(1)),
      Entry(JAbsent, JAbsent, JAbsent),
      Entry(JStr(<<>>), JStr(<<"2", ".", "0", "0", "5">>), JAbsent),
      Entry(JAbsent, JStr(<<"0", ".", "1", "2", "5">>), JInt(1)),
      Entry(JStr(<<"T", "e", "a">>), JStr(<<"0", ".", "1">>), JStr(<<"3">>)),
      Entry(JStr(<<"T", "e", "a">>), JStr(<<"0", ".", "2">>), JFloat(25)),
      Entry(JStr(<<"a", "\n", "b">>), JStr(<<"-", "2", ".", "0", "0", "5">>), JInt(2)),
      Entry(JNull, JFloat(5), JInt(-1)),
      Entry(JStr(<<"L", "a", "m", "p">>), JStr(<<"a", "b", "c">>), JInt(1)),
      Entry(JStr(<<"L", "a", "m", "p">>), JStr(<<"1">>), JStr(<<"2", ".", "5">>)),
      Entry(JStr(<<"L", "a", "m", "p">>), JStr(<<"1", "E", "+", "2">>), JNull),
      NotAMapping }

\* the lists of at most n records
RECURSIVE EntryLists(_)
EntryLists(n) ==
    IF n = 0 THEN {<<>>}
    ELSE LET shorter == EntryLists(n - 1)
         IN shorter \cup {Append(l, e) : l \in {x \in shorter : Len(x) = n - 1}, e \in Entries}

ItemsValue(t, elems) == [t |-> t, elems |-> elems]

Document(t, items) == [t |-> t, items |-> items]

\* the decoded content of the items file: a mapping whose "items" is a list, is
\* absent, or is something else (an empty or a non-empty mapping or string, a
\* number, null); or no mapping at all; or no JSON ("invalid")
Documents ==
    {Document("map", ItemsValue("list", l)) : l \in EntryLists(MaxItems)}
    \cup {Document("map", ItemsValue(t, <<>>)) : t \in {"absent", "map", "str", "num", "null"}}
    \cup {Document("map", ItemsValue(t, <<NotAMapping>>)) : t \in {"map", "str"}}
    \cup {Document(t, ItemsValue("absent", <<>>)) : t \in {"list", "str", "num", "null", "invalid"}}

\* the values of --tax
TaxArgs ==
    { <<"0", ".", "0", "8", "8">>, <<"0", ".", "0", "5">>, <<"0", ".", "2", "5">>, <<"0", ".", "1">>, <<"0", ".", "2">>, <<"1">>, <<"0">>, <<"0", ".", "1", "0">>, <<"a", "b", "c">> }

\* the values of --currency
CurrencyArgs == { <<"$">>, <<"E", "U", "R">> }

\* ------------------------------------------------------------ the state

VARIABLES
    data,       \* main: the decoded content of the file --items names
    exists,     \* main: items_path.exists()
    tax_arg,    \* main: args.tax
    currency,   \* main: args.currency
    to_file,    \* main: whether --output is given
    pc,         \* main: "start", "loaded", "built", "done", "raised", "exit"
    raised_by,  \* main: the call whose exception ended main, "" when none did
    items,      \* main: the list load_items_from_json returned
    receipt,    \* main: what build_receipt returned, with its locals
    emitted,    \* main: the text printed or written
    sessions,   \* app.py: each session's script run
    files       \* app.py: the content of the two files the runs go through

vars == <<data, exists, tax_arg, currency, to_file, pc, raised_by, items, receipt,
          emitted, sessions, files>>

mainVars == <<data, exists, tax_arg, currency, to_file, pc, raised_by, items, receipt,
              emitted>>

appVars == <<sessions, files>>

NoReceipt ==
    [lines |-> <<>>, totals |-> <<>>, subtotal |-> Dec(FALSE, 0, 0), tax |-> Dec(FALSE, 0, 0),
     grand_total |-> Dec(FALSE, 0, 0), text |-> <<>>]

NoDocument == Document("invalid", ItemsValue("absent", <<>>))

\* ------------------------------------------------------------------ main

\* if not items_path.exists(): raise SystemExit(...)
MainNotFound ==
    /\ pc = "start" /\ ~exists
    /\ pc' = "exit"
    /\ UNCHANGED <<data, exists, tax_arg, currency, to_file, raised_by, items, receipt,
                   emitted>>
    /\ UNCHANGED appVars

\* items = load_items_from_json(items_path); an exception ends main
MainLoad ==
    /\ pc = "start" /\ exists
    /\ LET r == load_items_from_json(data)
       IN IF r.raised
          THEN pc' = "raised" /\ raised_by' = "load_items_from_json" /\ items' = items
          ELSE pc' = "loaded" /\ raised_by' = raised_by /\ items' = r.v
    /\ UNCHANGED <<data, exists, tax_arg, currency, to_file, receipt, emitted>>
    /\ UNCHANGED appVars

\* tax_rate = Decimal(str(args.tax)); receipt = build_receipt(...)
MainBuild ==
    /\ pc = "loaded"
    /\ LET tax_rate == ParseDecimal(tax_arg)
       IN IF tax_rate.raised
          THEN pc' = "raised" /\ raised_by' = "Decimal" /\ receipt' = receipt
          ELSE /\ pc' = "built" /\ raised_by' = raised_by
               /\ receipt' = build_receipt(items, tax_rate.v, currency)
    /\ UNCHANGED <<data, exists, tax_arg, currency, to_file, items, emitted>>
    /\ UNCHANGED appVars

\* write_text(receipt + "\n") with --output, print(receipt) without: both put
\* one newline after the text
MainEmit ==
    /\ pc = "built"
    /\ pc' = "done"
    /\ emitted' = [dest |-> IF to_file THEN "file" ELSE "stdout",
                   text |-> receipt.text \o <<"\n">>]
    /\ UNCHANGED <<data, exists, tax_arg, currency, to_file, raised_by, items, receipt>>
    /\ UNCHANGED appVars

NoSessions == [s \in 1..NumSessions |-> [kind |-> "none"]]

NoFiles == [f \in {"_mem.json", "manual_items.json"} |-> NoDocument]

\* a file that does not exist has no content
Init ==
    /\ exists \in BOOLEAN
    /\ data \in (IF exists THEN Documents ELSE {NoDocument})
    /\ tax_arg \in TaxArgs
    /\ currency \in CurrencyArgs
    /\ to_file \in BOOLEAN
    /\ pc = "start"
    /\ raised_by = ""
    /\ items = <<>>
    /\ receipt = NoReceipt
    /\ emitted = [dest |-> "none", text |-> <<>>]
    /\ sessions = NoSessions
    /\ files = NoFiles

Next == MainNotFound \/ MainLoad \/ MainBuild \/ MainEmit

Spec == Init /\ [][Next]_vars

\* ---------------------------------------------------------------- claims
\* What the claims speak of, computed on integers and independently of the
\* Decimal operations above.

Abs(n) == IF n < 0 THEN -n ELSE n

\* the signed coefficient of a Decimal
Signed(d) == IF d.neg THEN -d.c ELSE d.c

\* n * 10^e in cents, rounded to the nearest cent, an exact half away from zero
RoundHalfUpCents(n, e) ==
    IF e >= -2 THEN n * Pow10(e + 2)
    ELSE LET D == Pow10(-2 - e)
             q == (2 * Abs(n) + D) \div (2 * D)
         IN IF n < 0 THEN -q ELSE q

\* price * quantity of an item, rounded to cents
ExpectedTotalCents(item) ==
    RoundHalfUpCents(Signed(item.price) * item.quantity, item.price.e)

RECURSIVE SumCents(_)
SumCents(its) ==
    IF its = <<>> THEN 0 ELSE ExpectedTotalCents(Head(its)) + SumCents(Tail(its))

\* the numeral of an amount of n cents: digits, a point, two digits
CentsStr(n) ==
    (IF n < 0 THEN <<"-">> ELSE <<>>) \o NatStr(Abs(n) \div 100) \o <<".">>
        \o NatStr((Abs(n) % 100) \div 10) \o NatStr(Abs(n) % 10)

\* the amount a receipt line shows: the numeral after the currency symbol,
\* which follows the line's last space
ShownAmount(line) ==
    LET sp == CHOOSE k \in 0..Len(line) :
                  /\ (k > 0 => line[k] = " ")
                  /\ \A j \in (k + 1)..Len(line) : line[j] # " "
    IN ParseDecimal(SubSeq(line, sp + 1 + Len(currency), Len(line))).v

Built == pc \in {"built", "done"}

tax_rate == ParseDecimal(tax_arg).v

\* C1: the Subtotal line of every receipt shows the exact sum of the items' line
\* totals, each rounded once to cents, and the sum itself is not rounded again
\* (the empty list shows 0.00).
C1_SubtotalIsSumOfLineTotals ==
    Built =>
        /\ receipt.lines[Len(items) + 3] = SubtotalStr \o currency \o CentsStr(SumCents(items))
        /\ Signed(receipt.subtotal) * Pow10(receipt.subtotal.e + 2) = SumCents(items)

\* two items whose separately rounded totals (2.01 + 2.01) differ from the
\* rounded exact sum (4.01), and the receipt shows 4.02
C1_Witness ==
    /\ Built /\ Len(items) = 2
    /\ \A k \in 1..2 : items[k].price = Dec(FALSE, 2005, -3) /\ items[k].quantity = 1
    /\ receipt.lines[5] = SubtotalStr \o currency \o <<"4", ".", "0", "2">>

\* C2: every line total is the unrounded price times the quantity, rounded to
\* cents half away from zero, and depends on the price's value only, not on how
\* it was written.
C2_LineTotalRoundsHalfUp ==
    Built =>
        /\ \A k \in 1..Len(items) :
              /\ receipt.totals[k].e = -2
              /\ Signed(receipt.totals[k]) = ExpectedTotalCents(items[k])
              /\ Signed(ShownAmount(receipt.lines[k + 1])) = ExpectedTotalCents(items[k])
        /\ \A j, k \in 1..Len(items) :
              (/\ items[j].quantity = items[k].quantity
               /\ Signed(items[j].price) * Pow10(items[j].price.e + 3)
                    = Signed(items[k].price) * Pow10(items[k].price.e + 3))
              => receipt.totals[j] = receipt.totals[k]

\* 2.005 at quantity 1 gives 2.01 and -2.005 at quantity 2 gives -4.01 (not -4.02)
C2_Witness ==
    /\ Built /\ Len(items) = 2
    /\ items[1].price = Dec(FALSE, 2005, -3) /\ items[1].quantity = 1
    /\ receipt.totals[1] = Dec(FALSE, 201, -2)
    /\ items[2].price = Dec(TRUE, 2005, -3) /\ items[2].quantity = 2
    /\ receipt.totals[2] = Dec(TRUE, 401, -2)

\* "254.00" and "254" at the same quantity give the same total
C2_SameValueReached ==
    /\ Built /\ Len(items) = 2
    /\ items[1].price = Dec(FALSE, 25400, -2) /\ items[2].price = Dec(FALSE, 254, 0)
    /\ receipt.totals[1] = receipt.totals[2]

\* C3: the tax is the subtotal times the tax rate rounded to cents half away
\* from zero; subtotal + tax has two fractional digits, so the rounding of the
\* grand total changes nothing, and the Total shown is the Subtotal shown plus
\* the Tax shown.
C3_TaxAndTotal ==
    Built =>
        LET n == Len(items)
        IN /\ receipt.tax.e = -2
           /\ Signed(receipt.tax)
                = RoundHalfUpCents(SumCents(items) * Signed(tax_rate), tax_rate.e - 2)
           /\ receipt.subtotal.e \in {0, -2}
           /\ receipt.grand_total = DecAdd(receipt.subtotal, receipt.tax)
           /\ Signed(receipt.grand_total) = SumCents(items) + Signed(receipt.tax)
           /\ Signed(ShownAmount(receipt.lines[n + 5]))
                = Signed(ShownAmount(receipt.lines[n + 3]))
                  + Signed(ShownAmount(receipt.lines[n + 4]))

\* the sample order: 306.15 at 8.8% is 26.9412, shown as 26.94, total 333.09
C3_Witness ==
    /\ Built
    /\ SumCents(items) = 30615 /\ tax_rate = Dec(FALSE, 88, -3)
    /\ receipt.tax = Dec(FALSE, 2694, -2)
    /\ receipt.grand_total = Dec(FALSE, 33309, -2)

\* a tie: -0.50 at 5% is -0.025, shown as -0.03
C3_TieReached ==
    /\ Built
    /\ SumCents(items) = -50 /\ tax_rate = Dec(FALSE, 5, -2)
    /\ receipt.tax = Dec(TRUE, 3, -2)

RECURSIVE StripFraction(_, _)
\* c with f fractional digits, its trailing fractional zeros dropped
StripFraction(c, f) ==
    IF f > 0 /\ c % 10 = 0 THEN StripFraction(c \div 10, f - 1) ELSE <<c, f>>

\* the decimal numeral of rate * 100 with its trailing fractional zeros stripped
PlainPercent(rate) ==
    LET f0 == -(rate.e + 2)
        r  == StripFraction(rate.c, f0)
        c  == r[1]
        f  == r[2]
        fr == c % Pow10(f)
    IN (IF rate.neg /\ rate.c # 0 THEN <<"-">> ELSE <<>>) \o
       (IF f0 <= 0 THEN NatStr(rate.c * Pow10(-f0))
        ELSE IF f = 0 THEN NatStr(c)
        ELSE NatStr(c \div Pow10(f)) \o <<".">> \o Zeros(f - NumDigits(fr)) \o NatStr(fr))

\* C4: the Tax line of every receipt shows, as its percentage, the decimal
\* numeral of tax_rate * 100 with trailing fractional zeros stripped (8.8, 5,
\* 25, and also 10, 20, 100 and 0).
C4_TaxLabelIsPlainNumeral ==
    Built =>
        LET line   == receipt.lines[Len(items) + 4]
            prefix == TaxStr \o PlainPercent(tax_rate) \o PercentStr
        IN /\ Len(line) >= Len(prefix)
           /\ SubSeq(line, 1, Len(prefix)) = prefix

\* the part of C4 the code meets: a rate whose percentage is no multiple of ten
C4_LabelWhenNotMultipleOfTen ==
    (Built /\ (tax_rate.c = 0 \/ (tax_rate.c * Pow10(tax_rate.e + 3)) % 100 # 0)) =>
        LET line   == receipt.lines[Len(items) + 4]
            prefix == TaxStr \o PlainPercent(tax_rate) \o PercentStr
        IN /\ Len(line) >= Len(prefix)
           /\ SubSeq(line, 1, Len(prefix)) = prefix

Loaded == pc \in {"loaded", "built", "done"} \/ (pc = "raised" /\ raised_by = "Decimal")

LoadRaised == pc = "raised" /\ raised_by = "load_items_from_json"

\* C5: loading fails whenever the document is no mapping or its "items" is
\* present and no list; with "items" absent it returns the empty list.
C5_NonListItemsRejected ==
    (exists /\ pc # "start") =>
        /\ (data.t # "map" \/ data.items.t \notin {"absent", "list"}) => LoadRaised
        /\ (data.t = "map" /\ data.items.t = "absent") => (Loaded /\ items = <<>>)

IntLiteral(s) ==
    LET digits == IF s # <<>> /\ s[1] \in {"-", "+"} THEN SubSeq(s, 2, Len(s)) ELSE s
    IN digits # <<>> /\ AllDigits(digits)

\* a quantity that is no integer: a number with a fractional part, a string
\* that is no integer numeral, null
NonIntegerQuantity(q) ==
    \/ q.t = "float" /\ q.n % 10 # 0
    \/ q.t = "str" /\ ~IntLiteral(q.s)
    \/ q.t = "null"

\* the quantity k is the one the record gives
GivesQuantity(q, k) ==
    CASE q.t = "absent" -> k = 1
      [] q.t = "int"    -> k = q.n
      [] q.t = "float"  -> 10 * k = q.n
      [] q.t = "str"    -> IntLiteral(q.s) /\ IntStr(k) = (IF q.s[1] = "+" THEN Tail(q.s) ELSE q.s)
      [] OTHER          -> FALSE

ListDocument == data.t = "map" /\ data.items.t = "list"

\* C6: a record whose quantity is no integer makes loading fail, and every
\* loaded item carries the quantity its record gives.
C6_NonIntegerQuantityRejected ==
    (exists /\ pc # "start" /\ ListDocument) =>
        LET raw == data.items.elems
        IN /\ (\E k \in 1..Len(raw) : raw[k].isMap /\ NonIntegerQuantity(raw[k].quantity))
                => LoadRaised
           /\ Loaded => \A k \in 1..Len(raw) : GivesQuantity(raw[k].quantity, items[k].quantity)

\* a record the loop of load_items_from_json rejects
Malformed(entry) == ParseEntry(entry).raised

C7_MalformedFirstReached ==
    /\ exists /\ ListDocument /\ Len(data.items.elems) = 2
    /\ Malformed(data.items.elems[1]) /\ ~Malformed(data.items.elems[2])
    /\ LoadRaised /\ items = <<>> /\ receipt = NoReceipt

\* the elements load_items_from_json iterates over
RawItems == IF data.items.t = "absent" THEN <<>> ELSE data.items.elems

EmptyRecord == Entry(JAbsent, JAbsent, JAbsent)

\* C8: a missing field gets its default without error: description "Item" when
\* absent or empty, price 0 when absent, quantity 1 when absent.
C8_DefaultsForMissingOrEmpty ==
    (exists /\ pc # "start" /\ ListDocument) =>
        /\ (\A k \in 1..Len(RawItems) : RawItems[k] = EmptyRecord) => Loaded
        /\ Loaded => \A k \in 1..Len(RawItems) :
              /\ (RawItems[k].description \in {JAbsent, JStr(<<>>)})
                    => items[k].description = ItemStr
              /\ RawItems[k].price = JAbsent => items[k].price = Dec(FALSE, 0, 0)
              /\ RawItems[k].quantity = JAbsent => items[k].quantity = 1

\* C8, amended: description "Item" when absent, while a description given as a
\* string, the empty one too, is kept as it is; price 0 when absent; quantity 1
\* when absent; none of it is an error.
C8_DefaultsForMissing ==
    (exists /\ pc # "start" /\ ListDocument) =>
        /\ (\A k \in 1..Len(RawItems) : RawItems[k] = EmptyRecord) => Loaded
        /\ Loaded => \A k \in 1..Len(RawItems) :
              /\ RawItems[k].description = JAbsent => items[k].description = ItemStr
              /\ RawItems[k].description.t = "str"
                    => items[k].description = RawItems[k].description.s
              /\ RawItems[k].price = JAbsent => items[k].price = Dec(FALSE, 0, 0)
              /\ RawItems[k].quantity = JAbsent => items[k].quantity = 1

\* the record {} loaded as LineItem("Item", 0, 1), next to a record whose empty
\* description stays empty
C8_Witness ==
    /\ Loaded /\ ListDocument /\ Len(RawItems) = 2
    /\ RawItems[1] = EmptyRecord
    /\ items[1] = LineItem(ItemStr, Dec(FALSE, 0, 0), 1)
    /\ RawItems[2].description = JStr(<<>>) /\ RawItems[2].quantity = JAbsent
    /\ items[2].description = <<>> /\ items[2].quantity = 1

RECURSIVE CountNewlines(_)
CountNewlines(text) ==
    IF text = <<>> THEN 0
    ELSE (IF Head(text) = "\n" THEN 1 ELSE 0) + CountNewlines(Tail(text))

RECURSIVE Offset(_, _)
\* where the i-th of the strings ls starts in their join by one separator each
Offset(ls, i) == IF i <= 1 THEN 0 ELSE Offset(ls, i - 1) + Len(ls[i - 1]) + 1

\* text is the strings ls in order, one newline between two of them and none
\* after the last
JoinedByNewlines(text, ls) ==
    /\ ls # <<>>
    /\ Len(text) = Offset(ls, Len(ls)) + Len(ls[Len(ls)])
    /\ \A i \in 1..Len(ls) :
          /\ SubSeq(text, Offset(ls, i) + 1, Offset(ls, i) + Len(ls[i])) = ls[i]
          /\ i < Len(ls) => text[Offset(ls, i) + Len(ls[i]) + 1] = "\n"

\* the description the receipt shows for a record
ShownDescription(entry) ==
    CASE entry.description.t = "absent" -> ItemStr
      [] entry.description.t = "str"    -> entry.description.s
      [] OTHER                          -> NoneStr

\* the line of the receipt for the k-th record
ExpectedItemLine(k) ==
    DashStr \o ShownDescription(RawItems[k]) \o TimesStr \o IntStr(items[k].quantity)
        \o AtStr \o currency
        \o CentsStr(RoundHalfUpCents(Signed(items[k].price), items[k].price.e))
        \o EqualsStr \o currency \o CentsStr(ExpectedTotalCents(items[k]))

StartsWith(line, prefix) ==
    Len(line) >= Len(prefix) /\ SubSeq(line, 1, Len(prefix)) = prefix

HasNewline(s) == \E i \in 1..Len(s) : s[i] = "\n"

\* C9: the receipt of n records is exactly n + 5 newline-separated lines with no
\* trailing newline: "Items:", the item line of each record in input order, a
\* blank line, the Subtotal, Tax and Total lines.
C9_ReceiptHasNPlus5Lines ==
    Built =>
        LET n == Len(RawItems)
        IN /\ CountNewlines(receipt.text) + 1 = n + 5
           /\ receipt.text[Len(receipt.text)] # "\n"

\* C9, amended: the receipt of n records is n + 5 strings joined by single
\* newlines with none after the last: "Items:", the item line of each record in
\* input order, an empty string, the Subtotal, Tax and Total lines (all 0.00 for
\* n = 0); these are exactly n + 5 lines of text when no description and no
\* currency symbol holds a newline.
C9_ReceiptLayout ==
    Built =>
        LET n  == Len(RawItems)
            ls == receipt.lines
        IN /\ Len(items) = n /\ Len(ls) = n + 5
           /\ JoinedByNewlines(receipt.text, ls)
           /\ ls[1] = ItemsStr
           /\ \A k \in 1..n : ls[k + 1] = ExpectedItemLine(k)
           /\ ls[n + 2] = <<>>
           /\ StartsWith(ls[n + 3], SubtotalStr \o currency)
           /\ StartsWith(ls[n + 4], TaxStr) /\ StartsWith(ls[n + 5], TotalStr \o currency)
           /\ n = 0 => /\ ls[3] = SubtotalStr \o currency \o CentsStr(0)
                       /\ ShownAmount(ls[4]) = Dec(FALSE, 0, -2)
                       /\ ls[5] = TotalStr \o currency \o CentsStr(0)
           /\ ((\A k \in 1..n : ~HasNewline(items[k].description)) /\ ~HasNewline(currency))
                => CountNewlines(receipt.text) + 1 = n + 5

\* two records with different descriptions, shown in input order on 7 lines
C9_Witness ==
    /\ Built /\ Len(RawItems) = 2
    /\ items[1].description = <<"L", "a", "m", "p">> /\ items[2].description = <<"T", "e", "a">>
    /\ CountNewlines(receipt.text) + 1 = 7
    /\ StartsWith(receipt.lines[2], DashStr \o <<"L", "a", "m", "p">>)
    /\ StartsWith(receipt.lines[3], DashStr \o <<"T", "e", "a">>)

\* the empty list: header, blank line, zero totals
C9_EmptyReached ==
    /\ Built /\ RawItems = <<>> /\ Len(receipt.lines) = 5
    /\ receipt.lines[3] = SubtotalStr \o currency \o <<"0", ".", "0", "0">>

\* ---------------------------------------------------------------- app.py
\* Each session runs the script in a thread of its own; the Upload tab goes
\* through the file _mem.json and the manual tab through manual_items.json,
\* both in the server's working directory.

\* the sidebar's settings, at their defaults
AppTax == <<"0", ".", "0", "8", "8">>

AppCurrency == <<"$">>

Sessions == 1..NumSessions

PathOf(kind) == IF kind = "upload" THEN "_mem.json" ELSE "manual_items.json"

\* the rows a session may enter in the manual tab: text, text and an int >= 1
ManualDocuments ==
    { Document("map", ItemsValue("list", <<Entry(JStr(<<"L", "a", "m", "p">>), JStr(<<"5", "2", ".", "1", "5">>), JInt(1))>>)),
      Document("map", ItemsValue("list", <<Entry(JStr(<<"S", "o", "f", "a">>), JStr(<<"2", "5", "4", ".", "0", "0">>), JInt(1))>>)),
      Document("map", ItemsValue("list", <<Entry(JStr(<<"L", "a", "m", "p">>), JStr(<<"a", "b", "c">>), JInt(1))>>)) }

\* the documents a session may upload
UploadDocuments ==
    ManualDocuments \cup
    { Document("map", ItemsValue("list", <<Entry(JAbsent, JFloat(5), JFloat(25))>>)),
      Document("map", ItemsValue("list", <<Entry(JStr(<<"T", "e", "a">>), JStr(<<"1">>), JStr(<<"a", "b", "c">>))>>)) }

\* one dict of the list the Upload tab builds from an uploaded record
UploadEntry(entry) ==
    IF ~entry.isMap THEN Raised
    ELSE LET quantity == PyInt(Get(entry.quantity, JInt(1)))
         IN IF quantity.raised THEN Raised
            ELSE Ok(Entry(Get(entry.description, JStr(ItemStr)),
                          JStr(PyStr(Get(entry.price, JStr(<<"0">>)))),
                          JInt(quantity.v)))

RECURSIVE UploadLoop(_, _, _)
\* for entry in data.get("items", []): items.append({...})
UploadLoop(raw_items, k, dicts) ==
    IF k > Len(raw_items) THEN Ok(dicts)
    ELSE LET r == UploadEntry(raw_items[k])
         IN IF r.raised THEN Raised ELSE UploadLoop(raw_items, k + 1, Append(dicts, r.v))

\* what a run is about to write: {"items": items} of the uploaded document, or
\* {"items": manual_items} of the rows
Prepared(kind, submitted) ==
    IF kind = "manual" THEN Ok(submitted)
    ELSE IF submitted.t # "map" \/ submitted.items.t \in {"num", "null"} THEN Raised
    ELSE LET r == UploadLoop(IF submitted.items.t = "absent" THEN <<>>
                             ELSE submitted.items.elems, 1, <<>>)
         IN IF r.raised THEN Raised ELSE Ok(Document("map", ItemsValue("list", r.v)))

Session(kind, submitted) ==
    [kind |-> kind, submitted |-> submitted, pc |-> "start", written |-> NoDocument,
     loaded |-> <<>>, text |-> <<>>]

\* the upload is decoded and the dicts are built (upload), or the rows are
\* collected (manual); an exception goes to st.error
AppPrepare(s) ==
    /\ sessions[s].pc = "start"
    /\ LET r == Prepared(sessions[s].kind, sessions[s].submitted)
       IN sessions' = [sessions EXCEPT ![s] =
              IF r.raised THEN [@ EXCEPT !.pc = "error"]
              ELSE [@ EXCEPT !.pc = "open", !.written = r.v]]
    /\ UNCHANGED files
    /\ UNCHANGED mainVars

\* tmp.write_text(...) opens the file for writing, which empties it
AppOpen(s) ==
    /\ sessions[s].pc = "open"
    /\ sessions' = [sessions EXCEPT ![s].pc = "write"]
    /\ files' = [files EXCEPT ![PathOf(sessions[s].kind)] = NoDocument]
    /\ UNCHANGED mainVars

\* tmp.write_text(...) writes the text from the start of the file and closes it.
\* Over a file another run has written to since this one emptied it, the result
\* is this text, followed by the rest of the other one when that is longer,
\* which is no JSON document.
AppWrite(s) ==
    /\ sessions[s].pc = "write"
    /\ sessions' = [sessions EXCEPT ![s].pc = "load"]
    /\ \E content \in {sessions[s].written} \cup
                      (IF files[PathOf(sessions[s].kind)] = NoDocument THEN {}
                       ELSE {NoDocument}) :
           files' = [files EXCEPT ![PathOf(sessions[s].kind)] = content]
    /\ UNCHANGED mainVars

\* items = load_items_from_json(tmp): the file is read as it is now
AppLoad(s) ==
    /\ sessions[s].pc = "load"
    /\ LET r == load_items_from_json(files[PathOf(sessions[s].kind)])
       IN sessions' = [sessions EXCEPT ![s] =
              IF r.raised THEN [@ EXCEPT !.pc = "error"]
              ELSE [@ EXCEPT !.pc = "build", !.loaded = r.v]]
    /\ UNCHANGED files
    /\ UNCHANGED mainVars

\* receipt = build_receipt(items, Decimal(str(tax)), currency); st.code(receipt)
AppBuild(s) ==
    /\ sessions[s].pc = "build"
    /\ LET rate == ParseDecimal(AppTax)
       IN sessions' = [sessions EXCEPT ![s] =
              IF rate.raised THEN [@ EXCEPT !.pc = "error"]
              ELSE [@ EXCEPT !.pc = "shown",
                             !.text = build_receipt(sessions[s].loaded, rate.v,
                                                    AppCurrency).text]]
    /\ UNCHANGED files
    /\ UNCHANGED mainVars

InitApp ==
    /\ sessions \in [Sessions ->
           {Session("upload", d) : d \in UploadDocuments}
           \cup {Session("manual", d) : d \in ManualDocuments}]
    /\ files = NoFiles
    /\ exists = FALSE
    /\ data = NoDocument
    /\ tax_arg = AppTax
    /\ currency = AppCurrency
    /\ to_file = FALSE
    /\ pc = "start"
    /\ raised_by = ""
    /\ items = <<>>
    /\ receipt = NoReceipt
    /\ emitted = [dest |-> "none", text |-> <<>>]

NextApp ==
    \E s \in Sessions :
        AppPrepare(s) \/ AppOpen(s) \/ AppWrite(s) \/ AppLoad(s) \/ AppBuild(s)

SpecApp == InitApp /\ [][NextApp]_vars

\* the receipt of a generation's own items
OwnReceipt(s) ==
    build_receipt(load_items_from_json(Prepared(sessions[s].kind, sessions[s].submitted).v).v,
                  ParseDecimal(AppTax).v, AppCurrency).text

\* a generation's own items make its run fail
OwnRaises(s) ==
    LET p == Prepared(sessions[s].kind, sessions[s].submitted)
    IN p.raised \/ load_items_from_json(p.v).raised

\* C10: under every interleaving of concurrent generations, the receipt a
\* generation shows is computed from the items that generation submitted.
C10_ReceiptFromOwnItems ==
    \A s \in Sessions :
        /\ sessions[s].pc = "shown" => sessions[s].text = OwnReceipt(s)
        /\ sessions[s].pc = "error" => OwnRaises(s)

\* the part of C10 the code meets: a generation on the Upload tab and one on
\* the manual tab go through different files
C10_DifferentTabsIndependent ==
    \A s \in Sessions :
        (sessions[s].pc = "shown" /\ \A o \in Sessions \ {s} : sessions[o].kind # sessions[s].kind)
            => sessions[s].text = OwnReceipt(s)

====
